---- MODULE Spec2Model ----
(***************************************************************************)
(* switch_outbound.py: one order row of a Switch bundle is split into      *)
(* outbound lines (disc line, accessory lines, console line).              *)
(*                                                                         *)
(* Text is modelled character by character: a Python str is a sequence of  *)
(* one-character strings.  A character outside ASCII is written as a       *)
(* romanised atom in angle brackets:                                       *)
(*   "<kyou>" "<ka>" "<ban>"          強 化 版                             *)
(*   "<yuu>" "<ki>"                   有 機                                *)
(*   "<koku>" "<nai>" "<sen>" "<you>" 国 内 専 用                          *)
(*   "<ma>" "<ri>" "<o>" "<ka_>" "<->" "<to>"   マ リ オ カ ー ト          *)
(*   "<ne>" "<n>" "<gu>" "<re>" "<ho>" "<wa>" "<i>"   ネ ン グ レ ホ ワ イ *)
(* Column headers and product codes are never searched inside, so they     *)
(* stay whole strings: "<kiiwaado>" is キーワード, "jan<koodo>" is         *)
(* janコード, "<tanka>" is 単価.                                           *)
(***************************************************************************)
EXTENDS Integers, Sequences

VARIABLES pc, loaded, kw_map, orders, cuts, remain, output_rows, df_out

vars == <<pc, loaded, kw_map, orders, cuts, remain, output_rows, df_out>>

\* Bounds of the model: mapping files given on the command line, rows of the
\* order table.
MaxSources == 2
MaxOrders == 2

\* Python's None; no modelled text is equal to it (texts hold single characters).
NoneVal == <<"None">>

(***************************************************************************)
(* str operations                                                          *)
(***************************************************************************)
\* The letters the modelled texts hold in upper case, each with its lower case.
LowerTable ==
    [A |-> "a", B |-> "b", C |-> "c", D |-> "d", E |-> "e", F |-> "f", G |-> "g", H |-> "h", I |-> "i", J |-> "j", K |-> "k", L |-> "l", M |-> "m",
     N |-> "n", O |-> "o", P |-> "p", Q |-> "q", R |-> "r", S |-> "s", T |-> "t", U |-> "u", V |-> "v", W |-> "w", X |-> "x", Y |-> "y", Z |-> "z"]

LowerChar(c) == IF c \in DOMAIN LowerTable THEN LowerTable[c] ELSE c

\* str.lower()
Lower(s) == [i \in 1..Len(s) |-> LowerChar(s[i])]

\* sub in s
Contains(sub, s) ==
    \E i \in 0..(Len(s) - Len(sub)) : SubSeq(s, i + 1, i + Len(sub)) = sub

\* str.strip()
Strip(s) ==
    LET keep == {i \in 1..Len(s) : s[i] # " "}
    IN  IF keep = {} THEN <<>>
        ELSE LET lo == CHOOSE i \in keep : \A j \in keep : i <= j
                 hi == CHOOSE i \in keep : \A j \in keep : j <= i
             IN  SubSeq(s, lo, hi)

Digits == <<"0","1","2","3","4","5","6","7","8","9">>

IsDigit(c) == \E d \in 1..Len(Digits) : Digits[d] = c

DigitValue(c) == (CHOOSE d \in 1..Len(Digits) : Digits[d] = c) - 1

RECURSIVE DigitsValue(_)
DigitsValue(s) ==
    IF s = <<>> THEN 0
    ELSE 10 * DigitsValue(SubSeq(s, 1, Len(s) - 1)) + DigitValue(s[Len(s)])

\* pd.to_numeric(..., errors="coerce") on one cell: an optionally signed run of
\* digits is its value, anything else (the empty cell too) is NaN.
ToNumeric(cell) ==
    LET s    == Strip(cell)
        neg  == s # <<>> /\ s[1] = "-"
        body == IF neg THEN Tail(s) ELSE s
    IN  IF body # <<>> /\ \A i \in 1..Len(body) : IsDigit(body[i])
        THEN [nan |-> FALSE, val |-> IF neg THEN 0 - DigitsValue(body) ELSE DigitsValue(body)]
        ELSE [nan |-> TRUE, val |-> 0]

\* .fillna(d)
FillNa(n, d) == IF n.nan THEN d ELSE n.val

\* math.floor(a / b), b # 0
FloorDiv(a, b) == IF b > 0 THEN a \div b ELSE (0 - a) \div (0 - b)

Max(a, b) == IF a >= b THEN a ELSE b

(***************************************************************************)
(* Fixed tables                                                            *)
(***************************************************************************)
Switch2Key == <<"S","w","i","t","c","h","2">>
KyoukaKey == <<"S","w","i","t","c","h","<kyou>","<ka>","<ban>">>
YuukiELKey == <<"S","w","i","t","c","h","<yuu>","<ki>","E","L">>

Kokunai == <<"<koku>","<nai>","<sen>","<you>">>
MarioKart == <<"<ma>","<ri>","<o>","<ka_>","<->","<to>">>
Legends == <<"L","E","G","E","N","D","S">>
Neon == <<"<ne>","<o>","<n>">>
Gray == <<"<gu>","<re>","<->">>
White == <<"<ho>","<wa>","<i>","<to>">>

\* dict in insertion order: family -> (model keyword -> jan)
CONSOLE_MAP ==
    << [type |-> Switch2Key,
        models |-> << [kw |-> Kokunai,   jan |-> "4902370553024"],
                      [kw |-> MarioKart, jan |-> "4902370553031"],
                      [kw |-> Legends,   jan |-> "4902370553505"] >>],
       [type |-> KyoukaKey,
        models |-> << [kw |-> Neon, jan |-> "4902370550733"],
                      [kw |-> Gray, jan |-> "4902370551198"] >>],
       [type |-> YuukiELKey,
        models |-> << [kw |-> White, jan |-> "4902370548495"],
                      [kw |-> Neon,  jan |-> "4902370548501"] >>] >>

ConsoleTypes == {CONSOLE_MAP[i].type : i \in 1..Len(CONSOLE_MAP)}

\* dict in insertion order: accessory -> jan, unit price
ACCESSORY_FIXED ==
    << [jan |-> "98462", unit_price |-> 500],
       [jan |-> "98463", unit_price |-> 500] >>

(***************************************************************************)
(* DataFrame: column names and rows of cells, a cell per column            *)
(***************************************************************************)
HasColumn(df, c) == \E i \in 1..Len(df.columns) : df.columns[i] = c

ColumnIndex(df, c) == CHOOSE i \in 1..Len(df.columns) : df.columns[i] = c

Cell(df, r, c) == df.rows[r][ColumnIndex(df, c)]

\* pd.DataFrame(columns=["keyword", "jan", "unit_price"])
EmptyTable == [columns |-> <<"keyword", "jan", "unit_price">>, rows |-> <<>>]

\* col_alias.get(c, c)
ColAlias(c) ==
    CASE c = "<kiiwaado>" -> "keyword"
      [] c = "keyword"    -> "keyword"
      [] c = "jan<koodo>" -> "jan"
      [] c = "jan"        -> "jan"
      [] c = "<tanka>"    -> "unit_price"
      [] c = "unit_price" -> "unit_price"
      [] OTHER            -> c

RenameColumns(df) ==
    [df EXCEPT !.columns = [i \in 1..Len(df.columns) |-> ColAlias(df.columns[i])]]

\* df["unit_price"] = pd.to_numeric(df["unit_price"], errors="coerce").fillna(0)
CoerceUnitPrice(df) ==
    IF HasColumn(df, "unit_price")
    THEN LET k == ColumnIndex(df, "unit_price")
         IN  [df EXCEPT !.rows =
                 [r \in 1..Len(df.rows) |->
                     [df.rows[r] EXCEPT ![k] = FillNa(ToNumeric(df.rows[r][k]), 0)]]]
    ELSE df

\* The family a mapping file's stem names; NoneVal when the file is skipped.
StemFamily(stem) ==
    LET stem_lower == Lower(stem)
    IN  IF Contains(<<"s","w","i","t","c","h","2">>, stem_lower) \/ Contains(<<"2">>, stem)
        THEN Switch2Key
        ELSE IF Contains(<<"<kyou>","<ka>">>, stem)
                \/ Contains(<<"k","y","o","u","k","a">>, stem_lower)
        THEN KyoukaKey
        ELSE IF Contains(<<"<yuu>","<ki>">>, stem) \/ Contains(<<"e","l">>, stem)
        THEN YuukiELKey
        ELSE NoneVal

\* mapping[key] = df
StoreTable(mapping, key, df) == [mapping EXCEPT ![key] = df]

\* One turn of the loop over paths in load_keyword_mappings.
LoadOne(mapping, src) ==
    IF ~src.exists THEN mapping
    ELSE LET df  == CoerceUnitPrice(RenameColumns([columns |-> src.columns, rows |-> src.rows]))
             key == StemFamily(src.name)
         IN  IF key = NoneVal THEN mapping ELSE StoreTable(mapping, key, df)

(***************************************************************************)
(* The loop over the order rows (main, part 3)                             *)
(***************************************************************************)
MinOf(S) == CHOOSE i \in S : \A j \in S : i <= j

\* orders["qty"] = pd.to_numeric(...).fillna(1).astype(int); qty = int(o["qty"])
ReadQty(o) == FillNa(ToNumeric(o.qty), 1)

\* orders["amount"] = pd.to_numeric(...).fillna(0).astype(float)
ReadAmount(o) == FillNa(ToNumeric(o.amount), 0)

find_console_type(title) ==
    LET ttl  == Lower(title)
        hits == {i \in 1..Len(CONSOLE_MAP) : Contains(Lower(CONSOLE_MAP[i].type), ttl)}
    IN  IF hits = {} THEN NoneVal ELSE CONSOLE_MAP[MinOf(hits)].type

ModelsOf(console_type) ==
    CONSOLE_MAP[CHOOSE i \in 1..Len(CONSOLE_MAP) : CONSOLE_MAP[i].type = console_type].models

find_console_model(console_type, text) ==
    IF console_type = NoneVal THEN NoneVal
    ELSE LET src  == Lower(text)
             ms   == ModelsOf(console_type)
             hits == {i \in 1..Len(ms) : Contains(Lower(ms[i].kw), src)}
         IN  IF hits = {} THEN NoneVal ELSE ms[MinOf(hits)].kw

\* CONSOLE_MAP.get(console_type, {}).get(console_kw, "")
ConsoleJan(console_type, console_kw) ==
    IF console_type = NoneVal THEN ""
    ELSE LET ms   == ModelsOf(console_type)
             hits == {i \in 1..Len(ms) : ms[i].kw = console_kw}
         IN  IF hits = {} THEN "" ELSE ms[MinOf(hits)].jan

\* kw_map.get(console_type) is not None
HasTable(mapping, console_type) == console_type \in DOMAIN mapping

\* if info2 and type_df is not None and not type_df.empty
DiscSearched(mapping, console_type, info2) ==
    info2 # <<>> /\ HasTable(mapping, console_type) /\ mapping[console_type].rows # <<>>

\* type_df[type_df["keyword"].astype(str).str.strip() == info2_str]
HitEq(type_df, info2_str) ==
    {r \in 1..Len(type_df.rows) : Strip(Cell(type_df, r, "keyword")) = info2_str}

\* type_df[type_df["keyword"].astype(str).apply(lambda k: k in info2_str)]
HitSub(type_df, info2_str) ==
    {r \in 1..Len(type_df.rows) : Contains(Cell(type_df, r, "keyword"), info2_str)}

\* Mutant of HitRow: the substring test before the test for equality.
HitRowSubstringFirst(type_df, info2_str) ==
    IF HitSub(type_df, info2_str) # {} THEN MinOf(HitSub(type_df, info2_str))
    ELSE IF HitEq(type_df, info2_str) # {} THEN MinOf(HitEq(type_df, info2_str))
    ELSE 0

\* The row of the table the disc line is made from, 0 for hit = None.
HitRow(type_df, info2_str) ==
    IF HitEq(type_df, info2_str) # {} THEN MinOf(HitEq(type_df, info2_str))
    ELSE IF HitSub(type_df, info2_str) # {} THEN MinOf(HitSub(type_df, info2_str))
    ELSE 0

\* float(hit.get("unit_price", 0))
HitPrice(type_df, r) ==
    IF HasColumn(type_df, "unit_price") THEN Cell(type_df, r, "unit_price") ELSE 0

\* KeyError: type_df["keyword"] without that column, hit["jan"] without that one.
DiscRaises(mapping, console_type, info2) ==
    /\ DiscSearched(mapping, console_type, info2)
    /\ LET type_df == mapping[console_type]
       IN  \/ ~HasColumn(type_df, "keyword")
           \/ /\ HitRow(type_df, Strip(info2)) # 0
              /\ ~HasColumn(type_df, "jan")

\* One appended row: 存货编码, 仓库, 数量, 单价, SN码, 备注.
OutputRow(code, qty, price, order_id) ==
    [product_code |-> code, warehouse |-> "", qty |-> qty,
     unit_price |-> price, serial |-> "", note |-> order_id]

\* Mutant of StartRemain: remain is not set anew for the order.
StartRemainCarried(total_amt, left_over) == left_over + total_amt

\* remain = total_amt, whatever the last order left in remain
StartRemain(total_amt, left_over) == total_amt

DiscRows(mapping, console_type, info2, qty, order_id) ==
    IF DiscSearched(mapping, console_type, info2)
       /\ HitRow(mapping[console_type], Strip(info2)) # 0
    THEN LET type_df == mapping[console_type]
             r       == HitRow(type_df, Strip(info2))
         IN  << OutputRow(Cell(type_df, r, "jan"), qty, HitPrice(type_df, r), order_id) >>
    ELSE <<>>

\* Mutant of AccessoryRows: the accessory rows for every order.
AccessoryRowsAnyFamily(console_type, qty, order_id) ==
    [i \in 1..Len(ACCESSORY_FIXED) |->
        OutputRow(ACCESSORY_FIXED[i].jan, qty, ACCESSORY_FIXED[i].unit_price, order_id)]

\* Mutant of AccessoryRows: one of each accessory, whatever the order's qty.
AccessoryRowsQtyOne(console_type, qty, order_id) ==
    IF console_type = Switch2Key
    THEN [i \in 1..Len(ACCESSORY_FIXED) |->
             OutputRow(ACCESSORY_FIXED[i].jan, 1, ACCESSORY_FIXED[i].unit_price, order_id)]
    ELSE <<>>

AccessoryRows(console_type, qty, order_id) ==
    IF console_type = Switch2Key
    THEN [i \in 1..Len(ACCESSORY_FIXED) |->
             OutputRow(ACCESSORY_FIXED[i].jan, qty, ACCESSORY_FIXED[i].unit_price, order_id)]
    ELSE <<>>

RECURSIVE RowsCost(_)
RowsCost(rows) ==
    IF rows = <<>> THEN 0
    ELSE rows[1].unit_price * rows[1].qty + RowsCost(Tail(rows))

\* Mutant of ConsoleUnitPrice: the quotient rounded up.
ConsoleUnitPriceCeil(rem, qty) ==
    IF qty # 0 THEN Max(0 - FloorDiv(0 - rem, qty), 0) ELSE 0

\* Mutant of ConsoleUnitPrice: without max(..., 0).
ConsoleUnitPriceNoClamp(rem, qty) == IF qty # 0 THEN FloorDiv(rem, qty) ELSE 0

\* unit_price_console = max(math.floor(remain / qty), 0) if qty else 0
ConsoleUnitPrice(rem, qty) == IF qty # 0 THEN Max(FloorDiv(rem, qty), 0) ELSE 0

\* The rows appended for one order, in the order of the appends.
EmitOrder(disc, accessories, console) == disc \o accessories \o <<console>>

\* One turn of the loop over the order rows, from the disc lookup on: whether
\* it raises, the rows it appends and the value it leaves in remain.  loc holds
\* the locals set before the lookup.
SplitLocals(mapping, loc, order_id, left_over) ==
    IF DiscRaises(mapping, loc.console_type, loc.info2)
    THEN [raised |-> TRUE, rows |-> <<>>, remain |-> StartRemain(loc.total_amt, left_over)]
    ELSE LET disc == DiscRows(mapping, loc.console_type, loc.info2, loc.qty, order_id)
             acc  == AccessoryRows(loc.console_type, loc.qty, order_id)
             rem  == StartRemain(loc.total_amt, left_over) - RowsCost(disc) - RowsCost(acc)
         IN  [raised |-> FALSE,
              rows   |-> EmitOrder(disc, acc,
                             OutputRow(loc.console_jan, loc.qty,
                                       ConsoleUnitPrice(rem, loc.qty), order_id)),
              remain |-> rem]

\* output_rows.append(...)
AppendRows(rows, new) == rows \o new

(***************************************************************************)
(* Inputs: the mapping files and the order rows a run may be given         *)
(***************************************************************************)
Kw1 == <<"[","1","]">>
Kw1x == <<"[","1","]","x">>

\* Switch2.csv, headers in Japanese; the second keyword has a trailing blank
\* and the second price is not a number.
SrcSwitch2 ==
    [name |-> <<"S","w","i","t","c","h","2">>, exists |-> TRUE,
     columns |-> <<"<kiiwaado>", "jan<koodo>", "<tanka>">>,
     rows |-> << <<Kw1, "G1", <<"3","0","0","0">> >>,
                 <<Kw1x \o <<" ">>, "G2", <<"a","b","c">> >> >>]

\* Switch2b.csv, a second table of that family; its code column is headed JAN.
SrcSwitch2b ==
    [name |-> <<"S","w","i","t","c","h","2","b">>, exists |-> TRUE,
     columns |-> <<"keyword", "JAN", "unit_price">>,
     rows |-> << <<Kw1, "B1", <<"1","0","0","0">> >> >>]

\* kyouka.csv
SrcKyouka ==
    [name |-> <<"k","y","o","u","k","a">>, exists |-> TRUE,
     columns |-> <<"keyword", "jan", "unit_price">>,
     rows |-> << << <<"x">>, "K1", <<"2","5","0","0">> >> >>]

\* Switch有機EL.csv, without a price column
SrcYuukiEL ==
    [name |-> <<"S","w","i","t","c","h","<yuu>","<ki>","E","L">>, exists |-> TRUE,
     columns |-> <<"keyword", "jan">>,
     rows |-> << <<Kw1, "E1">> >>]

\* SwitchEL.csv
SrcSwitchEL ==
    [name |-> <<"S","w","i","t","c","h","E","L">>, exists |-> TRUE,
     columns |-> <<"keyword", "jan", "unit_price">>,
     rows |-> << <<Kw1, "L1", <<"7","0","0">> >> >>]

\* games.csv
SrcGames ==
    [name |-> <<"g","a","m","e","s">>, exists |-> TRUE,
     columns |-> <<"keyword", "jan", "unit_price">>,
     rows |-> << <<Kw1, "X1", <<"9","0","0">> >> >>]

\* a path that does not exist
SrcGone ==
    [name |-> <<"S","w","i","t","c","h","2">>, exists |-> FALSE,
     columns |-> <<>>, rows |-> <<>>]

Sources ==
    {SrcSwitch2, SrcSwitch2b, SrcKyouka, SrcYuukiEL, SrcSwitchEL, SrcGames, SrcGone}

Titles ==
    { <<"S","w","i","t","c","h","2">>,
      <<"s","w","i","t","c","h","<kyou>","<ka>","<ban>">>,
      <<"S","w","i","t","c","h","<yuu>","<ki>","E","L">>,
      <<"P","S","5">> }

Info1s == {Kokunai, Neon}

Info2s == {<<>>, <<" ">> \o Kw1, Kw1x}

QtyCells == {<<"0">>, <<"2">>, <<"x">>}

AmountCells == {<<"-","1","0","0">>, <<"a","b","c">>, <<"1","0","0","0","1">>}

OrderIds == {"A1", "A2"}

\* The rows an order table may hold.
Orders ==
    [order_id : OrderIds, title : Titles, info1 : Info1s, info2 : Info2s,
     qty : QtyCells, amount : AmountCells]

\* The rows of the tables of several rows.
BatchOrders ==
    {o \in Orders : /\ o.info1 = Kokunai
                    /\ o.info2 # <<" ">> \o Kw1
                    /\ o.qty # <<"x">>
                    /\ o.amount = <<"1","0","0","0","1">>}

\* The locals one turn of the loop sets from its row before the disc lookup.
RowLocals(o) ==
    LET console_type == find_console_type(o.title)
        info1        == Strip(o.info1)
        console_kw   == find_console_model(console_type, info1)
    IN  [qty          |-> ReadQty(o),
         total_amt    |-> ReadAmount(o),
         info2        |-> Strip(o.info2),
         console_type |-> console_type,
         console_kw   |-> console_kw,
         console_jan  |-> ConsoleJan(console_type, console_kw)]

\* RowLocals of every row of Orders.  TLC tabulates a function once it has been
\* compared, and then looks a row up instead of computing RowLocals again.
Locals ==
    LET table == [o \in Orders |-> RowLocals(o)]
    IN  IF table = table THEN table ELSE table

\* One turn of the loop over the order rows.
SplitRow(mapping, o, left_over) == SplitLocals(mapping, Locals[o], o.order_id, left_over)

(***************************************************************************)
(* The run                                                                 *)
(***************************************************************************)
Init ==
    /\ pc = "load"
    /\ loaded = <<>>
    /\ kw_map = [key \in ConsoleTypes |-> EmptyTable]
    /\ orders = <<>>
    /\ cuts = <<>>
    /\ remain = 0
    /\ output_rows = <<>>
    /\ df_out = <<>>

\* load_keyword_mappings: one more path of the list is read.  loaded is the
\* part of paths already gone through.
LoadSource ==
    /\ pc = "load"
    /\ Len(loaded) < MaxSources
    /\ \E src \in Sources :
          /\ loaded' = Append(loaded, src)
          /\ kw_map' = LoadOne(kw_map, src)
    /\ UNCHANGED <<pc, orders, cuts, remain, output_rows, df_out>>

\* return mapping: the list of paths is gone with the call.
ReturnMapping ==
    /\ pc = "load"
    /\ pc' = "split"
    /\ loaded' = <<>>
    /\ UNCHANGED <<kw_map, orders, cuts, remain, output_rows, df_out>>

\* One more row of the order table goes through the loop.  orders holds the
\* rows gone through, cuts[i] the length of output_rows when row i began.
SplitOrder(pool, limit) ==
    /\ pc = "split"
    /\ Len(orders) < limit
    /\ \E o \in pool :
          LET res == SplitRow(kw_map, o, remain)
          IN  /\ orders' = Append(orders, o)
              /\ cuts' = Append(cuts, Len(output_rows))
              /\ remain' = res.remain
              /\ pc' = IF res.raised THEN "aborted" ELSE "split"
              /\ output_rows' = IF res.raised THEN output_rows
                                ELSE AppendRows(output_rows, res.rows)
    /\ UNCHANGED <<loaded, kw_map, df_out>>

SplitBatch == SplitOrder(BatchOrders, MaxOrders)

SplitSingle == SplitOrder(Orders, 1)

\* df_out = pd.DataFrame(output_rows, ...); df_out.to_excel(...)
WriteOut ==
    /\ pc = "split"
    /\ pc' = "done"
    /\ df_out' = output_rows
    /\ UNCHANGED <<loaded, kw_map, orders, cuts, remain, output_rows>>

Next == LoadSource \/ ReturnMapping \/ SplitBatch \/ WriteOut

\* A run over an order table of up to MaxOrders rows.
Spec == Init /\ [][Next]_vars

NextSingle == LoadSource \/ ReturnMapping \/ SplitSingle \/ WriteOut

\* A run over an order table of one row, any row of Orders.
SpecSingle == Init /\ [][NextSingle]_vars

(***************************************************************************)
(* What the properties below speak of                                      *)
(***************************************************************************)
\* The rows appended for the i-th order row.
Seg(i) ==
    SubSeq(output_rows, cuts[i] + 1,
           IF i < Len(orders) THEN cuts[i + 1] ELSE Len(output_rows))

\* The turn of the i-th order row ended without raising.
Finished(i) == i < Len(orders) \/ pc # "aborted"

Loc(i) == Locals[orders[i]]

AccessoryJans == {ACCESSORY_FIXED[k].jan : k \in 1..Len(ACCESSORY_FIXED)}

\* The rows of Seg(i) before its last one: what was taken off the amount.
Deductions(i) == RowsCost(SubSeq(Seg(i), 1, Len(Seg(i)) - 1))

Remainder(i) == Loc(i).total_amt - Deductions(i)

ConsoleRow(i) == Seg(i)[Len(Seg(i))]

\* The table of the order's family holds rows and info2 is not empty.
Searched(i) == DiscSearched(kw_map, Loc(i).console_type, Loc(i).info2)

\* Family, model and, when a disc is named, disc are all found.
Resolved(i) ==
    /\ Loc(i).console_type # NoneVal
    /\ Loc(i).console_jan # ""
    /\ Loc(i).info2 # <<>> =>
          /\ Searched(i)
          /\ HitRow(kw_map[Loc(i).console_type], Loc(i).info2) # 0

(***************************************************************************)
(* C1                                                                      *)
(***************************************************************************)
\* C1, as claimed: for every resolved order with qty >= 0 and any amount, the
\* rows emitted for it cost at most its amount, the remainder (amount minus the
\* disc and accessory deductions) is non-negative and the console row's unit
\* price is floor(remainder / qty).
C1_AnyAmount ==
    \A i \in 1..Len(orders) :
        (Finished(i) /\ Resolved(i) /\ Loc(i).qty >= 0) =>
            /\ RowsCost(Seg(i)) <= Loc(i).total_amt
            /\ Remainder(i) >= 0
            /\ Loc(i).qty > 0 =>
                  ConsoleRow(i).unit_price = FloorDiv(Remainder(i), Loc(i).qty)

\* C1, amended: for every resolved order with qty >= 0 whose remainder (amount
\* minus the disc and accessory deductions) is non-negative, the rows emitted
\* for it cost at most its amount and the console row's unit price is
\* floor(remainder / qty), 0 when qty is 0.
C1_NonNegativeRemainder ==
    \A i \in 1..Len(orders) :
        (Finished(i) /\ Resolved(i) /\ Loc(i).qty >= 0 /\ Remainder(i) >= 0) =>
            /\ RowsCost(Seg(i)) <= Loc(i).total_amt
            /\ ConsoleRow(i).unit_price =
                  IF Loc(i).qty > 0 THEN FloorDiv(Remainder(i), Loc(i).qty) ELSE 0

\* A resolved Switch2 order with a disc row was split, and its remainder is
\* positive and no multiple of its qty.
C1_Witness ==
    \E i \in 1..Len(orders) :
        /\ Finished(i) /\ Resolved(i)
        /\ Loc(i).console_type = Switch2Key
        /\ Len(Seg(i)) = Len(ACCESSORY_FIXED) + 2
        /\ Loc(i).qty > 1
        /\ Remainder(i) > 0
        /\ Remainder(i) % Loc(i).qty # 0

(***************************************************************************)
(* C2                                                                      *)
(***************************************************************************)
\* The rows of one order in the claimed sequence: at most one row, then the
\* accessory rows (Switch2 only), then the console row.
InSequence(i) ==
    LET seg  == Seg(i)
        nacc == IF Loc(i).console_type = Switch2Key THEN Len(ACCESSORY_FIXED) ELSE 0
        n    == Len(seg)
    IN  /\ n \in {nacc + 1, nacc + 2}
        /\ seg[n].product_code = Loc(i).console_jan
        /\ seg[n].note = orders[i].order_id
        /\ \A k \in 1..nacc :
              seg[n - 1 - nacc + k].product_code = ACCESSORY_FIXED[k].jan
        /\ n = nacc + 2 => seg[1].product_code \notin AccessoryJans

\* C2: every order has its rows in the output in the sequence disc row (at most
\* one), accessory rows (Switch2 only), console row, and the console row is
\* there for every order.
C2_FixedSequence == \A i \in 1..Len(orders) : InSequence(i)

(***************************************************************************)
(* C3                                                                      *)
(***************************************************************************)
\* The family the naming rule of the docstring gives a stem: Switch2; 強化 or
\* kyouka; 有機 or EL.
NamedFamily(stem) ==
    IF Contains(<<"S","w","i","t","c","h","2">>, stem) THEN Switch2Key
    ELSE IF Contains(<<"<kyou>","<ka>">>, stem) \/ Contains(<<"k","y","o","u","k","a">>, stem)
    THEN KyoukaKey
    ELSE IF Contains(<<"<yuu>","<ki>">>, stem) \/ Contains(<<"E","L">>, stem)
    THEN YuukiELKey
    ELSE NoneVal

\* The rows of a mapping file as the registry holds them.
ReadRows(src) ==
    CoerceUnitPrice(RenameColumns([columns |-> src.columns, rows |-> src.rows])).rows

RowsOf(df) == {df.rows[r] : r \in 1..Len(df.rows)}

\* C3: after any sequence of readable mapping files, every file whose name
\* matches a family's rule has all its rows under that family's key (files of
\* one family are merged), and a file matching no rule has no row anywhere.
C3_AllRowsRetrievable ==
    pc = "load" =>
        \A i \in 1..Len(loaded) :
            loaded[i].exists =>
                LET key == NamedFamily(loaded[i].name)
                IN  IF key # NoneVal
                    THEN RowsOf([rows |-> ReadRows(loaded[i])]) \subseteq RowsOf(kw_map[key])
                    ELSE \A f \in ConsoleTypes :
                            RowsOf([rows |-> ReadRows(loaded[i])]) \cap RowsOf(kw_map[f]) = {}

(***************************************************************************)
(* C4                                                                      *)
(***************************************************************************)
\* C4: whatever the order rows and the mapping tables, the loop does not abort
\* and leaves a console row for every order; an order without a family token
\* has that one row only, with an empty code.
C4_NeverAborts ==
    /\ pc # "aborted"
    /\ \A i \in 1..Len(orders) :
          /\ Seg(i) # <<>>
          /\ ConsoleRow(i).note = orders[i].order_id
          /\ Loc(i).console_type = NoneVal =>
                /\ Len(Seg(i)) = 1
                /\ ConsoleRow(i).product_code = ""

(***************************************************************************)
(* C5                                                                      *)
(***************************************************************************)
NonPremium(i) == Loc(i).console_type \in {KyoukaKey, YuukiELKey}

\* No disc keyword matches: info2 is empty, the family's table is empty, or the
\* lookup finds no keyword equal to info2 or held in it.
NoDiscMatch(i) ==
    \/ ~Searched(i)
    \/ /\ HasColumn(kw_map[Loc(i).console_type], "keyword")
       /\ HitRow(kw_map[Loc(i).console_type], Loc(i).info2) = 0

\* C5, as claimed: a non-premium order without a matching disc keyword has
\* exactly one row, with unit price floor(amount / qty), 0 when qty is 0.
C5_FloorOfAmount ==
    \A i \in 1..Len(orders) :
        (Finished(i) /\ NonPremium(i) /\ NoDiscMatch(i)) =>
            /\ Len(Seg(i)) = 1
            /\ Seg(i)[1].unit_price =
                  IF Loc(i).qty = 0 THEN 0
                  ELSE FloorDiv(Loc(i).total_amt, Loc(i).qty)

\* C5, amended: a non-premium order without a matching disc keyword has exactly
\* one row, with unit price floor(amount / qty) or 0 if that is negative, and 0
\* when qty is 0.
C5_ClampedFloorOfAmount ==
    \A i \in 1..Len(orders) :
        (Finished(i) /\ NonPremium(i) /\ NoDiscMatch(i)) =>
            /\ Len(Seg(i)) = 1
            /\ Seg(i)[1].unit_price =
                  IF Loc(i).qty = 0 THEN 0
                  ELSE Max(FloorDiv(Loc(i).total_amt, Loc(i).qty), 0)

\* A non-premium order was split against a table of its family that holds rows,
\* none of them matching its info2, and its amount is no multiple of its qty.
C5_Witness ==
    \E i \in 1..Len(orders) :
        /\ Finished(i) /\ NonPremium(i)
        /\ Searched(i) /\ NoDiscMatch(i)
        /\ Loc(i).qty > 1
        /\ Loc(i).total_amt > 0
        /\ Loc(i).total_amt % Loc(i).qty # 0

(***************************************************************************)
(* C6                                                                      *)
(***************************************************************************)
AccessoryRowsIn(seg) == {k \in 1..Len(seg) : seg[k].product_code \in AccessoryJans}

\* C6: every Switch2 order, whatever its fields and the mapping tables, has one
\* row per entry of ACCESSORY_FIXED, with that entry's code and unit price, and
\* each takes unit_price * qty off the remainder; an order of another family or
\* of none has no accessory row.
C6_AccessoryRows ==
    \A i \in 1..Len(orders) :
        IF Loc(i).console_type = Switch2Key
        THEN /\ Len(Seg(i)) > Len(ACCESSORY_FIXED)
             /\ \A k \in 1..Len(ACCESSORY_FIXED) :
                   LET row == Seg(i)[Len(Seg(i)) - 1 - Len(ACCESSORY_FIXED) + k]
                   IN  /\ row.product_code = ACCESSORY_FIXED[k].jan
                       /\ row.unit_price = ACCESSORY_FIXED[k].unit_price
             /\ Deductions(i) >= Len(ACCESSORY_FIXED) * 500 * Loc(i).qty
        ELSE AccessoryRowsIn(Seg(i)) = {}

(***************************************************************************)
(* C7                                                                      *)
(***************************************************************************)
\* C7: the console row's unit price is never negative; it is 0 when the
\* deductions exceed the amount (or the amount is negative) and when qty is 0.
C7_ConsolePriceNotNegative ==
    \A i \in 1..Len(orders) :
        Finished(i) =>
            /\ ConsoleRow(i).unit_price >= 0
            /\ (Loc(i).qty > 0 /\ Remainder(i) < 0) => ConsoleRow(i).unit_price = 0
            /\ Loc(i).qty = 0 => ConsoleRow(i).unit_price = 0

\* An order with a non-negative amount was split whose deductions exceed its
\* amount.
C7_Witness ==
    \E i \in 1..Len(orders) :
        /\ Finished(i)
        /\ Loc(i).qty > 0
        /\ Loc(i).total_amt >= 0
        /\ Deductions(i) > Loc(i).total_amt
        /\ ConsoleRow(i).unit_price = 0

(***************************************************************************)
(* C8                                                                      *)
(***************************************************************************)
\* C8: every row of the output was emitted for one of the orders and carries
\* that order's qty and, as note, that order's order_id.
C8_QtyAndNoteOfOrder ==
    /\ \A i \in 1..Len(orders) :
          \A k \in 1..Len(Seg(i)) :
              /\ Seg(i)[k].qty = Loc(i).qty
              /\ Seg(i)[k].note = orders[i].order_id
    /\ orders # <<>> => cuts[1] = 0
    /\ orders = <<>> => output_rows = <<>>

\* Two orders of different qty and order_id were split, the first into four
\* rows.
C8_Witness ==
    /\ Len(orders) = 2
    /\ Finished(2)
    /\ Len(Seg(1)) = Len(ACCESSORY_FIXED) + 2
    /\ Loc(1).qty # Loc(2).qty
    /\ orders[1].order_id # orders[2].order_id

(***************************************************************************)
(* C9                                                                      *)
(***************************************************************************)
\* The rows an order row gives when it is the only row of the table.
AloneRows(o) == SplitRow(kw_map, o, 0).rows

RECURSIVE ConcatAlone(_)
ConcatAlone(os) ==
    IF os = <<>> THEN <<>>
    ELSE ConcatAlone(SubSeq(os, 1, Len(os) - 1)) \o AloneRows(os[Len(os)])

\* C9: after the k-th order the output is the concatenation, in input order, of
\* the rows each of the orders 1..k gives when split alone against the same
\* registry, so the rows emitted before stay as they were; the table written
\* out is that output.
C9_ConcatenationOfAlone ==
    /\ pc # "load" => output_rows = ConcatAlone(orders)
    /\ pc = "done" => df_out = output_rows

\* Two orders were split, the first leaving a remainder and rows behind it.
C9_Witness ==
    /\ Len(orders) = 2
    /\ Finished(2)
    /\ Remainder(1) # 0
    /\ Loc(2).qty > 0
    /\ Len(Seg(2)) > 1

(***************************************************************************)
(* C10                                                                     *)
(***************************************************************************)
Table(i) == kw_map[Loc(i).console_type]

\* The entry the claimed rule picks: the first whose keyword is equal to the
\* trimmed info2, else the first whose keyword is held in it, else none (0).
ClaimedEntry(df, info2_str) ==
    LET eq  == {r \in 1..Len(df.rows) : Cell(df, r, "keyword") = info2_str}
        sub == {r \in 1..Len(df.rows) : Contains(Cell(df, r, "keyword"), info2_str)}
    IN  IF eq # {} THEN MinOf(eq) ELSE IF sub # {} THEN MinOf(sub) ELSE 0

\* The same with the keyword trimmed before it is compared for equality.
TrimmedEntry(df, info2_str) ==
    LET eq  == {r \in 1..Len(df.rows) : Strip(Cell(df, r, "keyword")) = info2_str}
        sub == {r \in 1..Len(df.rows) : Contains(Cell(df, r, "keyword"), info2_str)}
    IN  IF eq # {} THEN MinOf(eq) ELSE IF sub # {} THEN MinOf(sub) ELSE 0

NumAccessories(i) == IF Loc(i).console_type = Switch2Key THEN Len(ACCESSORY_FIXED) ELSE 0

\* The rows of order i show entry r of its family's table as the disc, or no
\* disc at all for r = 0.
DiscIs(i, r) ==
    IF r = 0
    THEN /\ Len(Seg(i)) = NumAccessories(i) + 1
         /\ Remainder(i) = Loc(i).total_amt - NumAccessories(i) * 500 * Loc(i).qty
    ELSE /\ Len(Seg(i)) = NumAccessories(i) + 2
         /\ Seg(i)[1].product_code = Cell(Table(i), r, "jan")
         /\ Seg(i)[1].unit_price =
               IF HasColumn(Table(i), "unit_price")
               THEN Cell(Table(i), r, "unit_price") ELSE 0

\* C10, as claimed: with info2 and the family's table not empty, the disc row
\* is made from the first entry whose keyword equals the trimmed info2, else
\* from the first whose keyword is a substring of it, else there is none and
\* nothing is taken off the remainder.
C10_KeywordAsWritten ==
    \A i \in 1..Len(orders) :
        (Finished(i) /\ Searched(i)) => DiscIs(i, ClaimedEntry(Table(i), Loc(i).info2))

\* C10, amended: the same, an entry's keyword being trimmed of surrounding
\* blanks before it is compared for equality (not for the substring test).
C10_KeywordTrimmed ==
    \A i \in 1..Len(orders) :
        (Finished(i) /\ Searched(i)) => DiscIs(i, TrimmedEntry(Table(i), Loc(i).info2))

\* A disc row was made from a later entry equal to info2 although an earlier
\* entry's keyword is a substring of info2.
C10_Witness ==
    \E i \in 1..Len(orders) :
        /\ Finished(i) /\ Searched(i)
        /\ LET r == TrimmedEntry(Table(i), Loc(i).info2)
           IN  /\ r > 1
               /\ Contains(Cell(Table(i), 1, "keyword"), Loc(i).info2)
               /\ Seg(i)[1].product_code = Cell(Table(i), r, "jan")

====
